---- MODULE Spec2Model ----
(***************************************************************************)
(* A model of json-streamer (src/src/lib.rs): the callback-driven reader   *)
(* StreamReader, the built-in handlers (dummy_handler, copy_handler,       *)
(* array_handler) and the materializers read_value / read_array /          *)
(* read_object, all driven by one shared, forward-only json::Parser.       *)
(*                                                                         *)
(* The parser is the external event source.  It is modelled at the         *)
(* interface lib.rs uses: next() yields the next event or None, and        *)
(* stack().top() is the nesting frame of the event just pulled.  The       *)
(* recursion of lib.rs is an explicit call stack (frames); one step of the *)
(* model is one parser.next() of a loop together with everything the loop  *)
(* body does until the next parser.next().                                 *)
(*                                                                         *)
(* Specifications: Spec reads well-formed streams with the built-in        *)
(* handlers; SpecFault reads truncated streams and streams with stray      *)
(* events, and SpecLive adds the fairness of the two loops; SpecCustom     *)
(* gives the caller a handler of its own and a call that breaks the        *)
(* precondition of read_object; SpecDup reads records that repeat a field  *)
(* name, twice with the same reader; SpecTwice reads a text with a reader  *)
(* and then with the free read_object.                                     *)
(***************************************************************************)
EXTENDS Integers, Sequences, FiniteSets, TLC

(***************************************************************************)
(* Bounds of the model.                                                    *)
(***************************************************************************)
\* Nodes (values) of a document read from a well-formed stream, root included.
MaxNodes == 4
\* Nodes of a document whose stream is truncated or carries a stray token.
MaxFaultNodes == 3
\* Nodes of a document read with a handler the caller wrote.
MaxCustomNodes == 4
\* Nodes of a document whose root record may repeat a field name.
MaxDupNodes == 3

\* Field names that occur in documents.
Keys == {"a", "b"}
\* Names the caller registers handlers under.
RegNames == {"a"}
\* The slot of the default handler in the ghost maps target and cbs.
DefaultSlot == "*"
Slots == RegNames \cup {DefaultSlot}

(***************************************************************************)
(* json::JsonEvent, json::StackElement and json::Json.  Every record kind  *)
(* keeps one shape, so that any two values of a kind can be compared.      *)
(***************************************************************************)
Ev(t, n) == [t |-> t, n |-> n]
ObjectStart == Ev("ObjectStart", 0)
ObjectEnd == Ev("ObjectEnd", 0)
ArrayStart == Ev("ArrayStart", 0)
ArrayEnd == Ev("ArrayEnd", 0)
ErrorEvent == Ev("Error", 0)
\* parser.next() = None
None == Ev("None", 0)

StackKey(name) == [k |-> "Key", name |-> name, i |-> 0]
StackIndex(i) == [k |-> "Index", name |-> "", i |-> i]
StackEmpty == [k |-> "None", name |-> "", i |-> 0]

\* json::Object::new(): the empty BTreeMap
EmptyObject == [x \in {} |-> 0]
JsonScalar(k, n) == [k |-> k, n |-> n, items |-> <<>>, fields |-> EmptyObject]
JsonNull == JsonScalar("Null", 0)
JsonArray(items) == [k |-> "Array", n |-> 0, items |-> items, fields |-> EmptyObject]
JsonObject(fields) == [k |-> "Object", n |-> 0, items |-> <<>>, fields |-> fields]

\* The scalar events documents are built from.
ScalarEvents == {Ev("I64Value", 1), Ev("BooleanValue", 1), Ev("NullValue", 0)}
\* The events that start no value.
StrayEvents == {ObjectEnd, ArrayEnd, ErrorEvent}

(***************************************************************************)
(* Documents: the text the parser reads, as an ordered tree.  A scalar     *)
(* node holds its event; an array its elements; a record its fields in     *)
(* document order (an element is a field with the empty name).  A "Stray"  *)
(* node stands for a malformed slot: the parser yields the stray event     *)
(* where the value should start.                                           *)
(***************************************************************************)
DocScalar(e) == [k |-> "Scalar", ev |-> e, kids |-> <<>>]
DocStray(e) == [k |-> "Stray", ev |-> e, kids |-> <<>>]
DocArray(items) == [k |-> "Array", ev |-> ArrayStart, kids |-> items]
DocObject(fields) == [k |-> "Object", ev |-> ObjectStart, kids |-> fields]
Field(name, val) == [name |-> name, val |-> val]

RECURSIVE DocValues(_, _)
RECURSIVE DocSeqs(_, _)
RECURSIVE DocFields(_, _, _)
\* The values of exactly n nodes; leaves range over the set L.
DocValues(n, L) ==
    IF n = 1
    THEN L \cup {DocArray(<<>>), DocObject(<<>>)}
    ELSE {DocArray(s) : s \in DocSeqs(n - 1, L)}
         \cup {DocObject(f) : f \in DocFields(n - 1, L, Keys)}
\* The non-empty element lists of n nodes in all.
DocSeqs(n, L) ==
    UNION {{<<Field("", x)>> \o s :
                x \in DocValues(m, L),
                s \in IF m = n THEN {<<>>} ELSE DocSeqs(n - m, L)}
           : m \in 1..n}
\* The non-empty field lists of n nodes in all, with distinct names from avail.
DocFields(n, L, avail) ==
    UNION {{<<Field(nm[1], x)>> \o f :
                x \in DocValues(nm[2], L),
                f \in IF nm[2] = n THEN {<<>>}
                      ELSE DocFields(n - nm[2], L, avail \ {nm[1]})}
           : nm \in avail \X (1..n)}

\* The root records of at most n nodes.
RootDocs(n, L) ==
    {DocObject(<<>>)} \cup
    UNION {{DocObject(f) : f \in DocFields(m, L, Keys)} : m \in 1..(n - 1)}

WellFormedDocs == RootDocs(MaxNodes, {DocScalar(e) : e \in ScalarEvents})

(***************************************************************************)
(* The parser's output for a document: each event with the stack top the   *)
(* parser shows right after yielding it.  The first event of a value shows *)
(* the slot the value sits in (Key(name) in a record, Index(i) in an       *)
(* array, the empty stack at the root); an end event shows the slot of the *)
(* container it closes.                                                    *)
(***************************************************************************)
Tok(e, top) == [ev |-> e, top |-> top]

RECURSIVE Tokenize(_, _)
RECURSIVE TokenizeItems(_, _)
RECURSIVE TokenizeFields(_)
Tokenize(d, slot) ==
    CASE d.k \in {"Scalar", "Stray"} -> <<Tok(d.ev, slot)>>
      [] d.k = "Array" ->
            <<Tok(ArrayStart, slot)>> \o TokenizeItems(d.kids, 0) \o <<Tok(ArrayEnd, slot)>>
      [] d.k = "Object" ->
            <<Tok(ObjectStart, slot)>> \o TokenizeFields(d.kids) \o <<Tok(ObjectEnd, slot)>>
TokenizeItems(items, i) ==
    IF items = <<>> THEN <<>>
    ELSE Tokenize(Head(items).val, StackIndex(i)) \o TokenizeItems(Tail(items), i + 1)
TokenizeFields(fields) ==
    IF fields = <<>> THEN <<>>
    ELSE Tokenize(Head(fields).val, StackKey(Head(fields).name))
         \o TokenizeFields(Tail(fields))

(***************************************************************************)
(* The state.                                                              *)
(***************************************************************************)
VARIABLES
    phase,            \* "setup", "run", "returned" or "panic"
    handlers,         \* StreamReader.handlers: name -> kind of handler
    default_handler,  \* StreamReader.default_handler: kind of handler
    doc,              \* the document the parser reads
    rec,              \* the record of the document that is read
    start,            \* the stream index of that record's ObjectStart
    stream,           \* the parser's events, each with its stack top
    pos,              \* the cursor: the number of events pulled so far
    frames,           \* the call stack: one frame per running loop
    target,           \* slot -> the json::Object a copy_handler copies into
    cbs,              \* slot -> the values an array_handler's callback was given
    calls,            \* the handler invocations of read_object, in order
    hdone,            \* the handler invocations that returned, in order
    rvlog,            \* the read_value calls that returned, in order
    last,             \* what the latest parser.next() returned
    entry,            \* the function the caller called: "reader" or "free"
    out,              \* what the free read_object returned, if it did
    pulled,           \* what the parser.next() calls of the traversal returned
    msg,              \* the message of the panic, if the traversal aborted
    prev              \* the outcome of the caller's earlier traversal, if any

vars == <<phase, handlers, default_handler, doc, rec, start, stream, pos, frames, target,
          cbs, calls, hdone, rvlog, last, entry, out, pulled, msg, prev>>

\* The handlers a caller builds with the library: lines 32, 91 and 100.
HandlerKinds == {"dummy", "copy", "array"}
\* A handler the caller writes (line 29): this one looks at `first` and
\* returns without a parser.next().
CustomKinds == {"peek"}

(***************************************************************************)
(* The parser, as lib.rs uses it.                                          *)
(***************************************************************************)
\* parser.next(): the next event with its stack top, or None when exhausted.
ParserNext(s, p) ==
    IF p < Len(s) THEN s[p + 1] ELSE Tok(None, StackEmpty)
\* ParserAdvance, had next() handed out the same event again.
ParserAdvance_stays(s, p) == p
\* The cursor after parser.next().
ParserAdvance(s, p) ==
    IF p < Len(s) THEN p + 1 ELSE p

(***************************************************************************)
(* Frames.  fn is the loop that runs: "read_object" (StreamReader's, lines *)
(* 70-85) or "array_handler" (lines 106-112).  owner tells whose it is:    *)
(* the caller's reader ("user") or the reader the free read_object builds  *)
(* ("fresh"); the caller's array handler ("user") or read_array's          *)
(* ("read_array").  rv: the frame was entered through read_value, which    *)
(* hands its result on.  obj and arr are the `result` locals of the free   *)
(* read_object and of read_array.  pend is the handler invocation in       *)
(* progress in a read_object frame.                                        *)
(***************************************************************************)
NoPend == [key |-> "", kind |-> "", slot |-> "", from |-> 0, user |-> FALSE]
Frame(fn, owner, slot, from, rv) ==
    [fn |-> fn, owner |-> owner, slot |-> slot, from |-> from, rv |-> rv,
     obj |-> EmptyObject, arr |-> <<>>, pend |-> NoPend]

Top(fs) == fs[Len(fs)]
Pop(fs) == SubSeq(fs, 1, Len(fs) - 1)

\* insert, had it kept the value a key already has.
insert_keeps_first(m, k, v) ==
    [x \in (DOMAIN m) \cup {k} |-> IF x \in DOMAIN m THEN m[x] ELSE v]

\* BTreeMap::insert: the new value replaces an old one under the same key.
insert(m, k, v) ==
    [x \in (DOMAIN m) \cup {k} |-> IF x = k THEN v ELSE m[x]]

\* DefaultOf, had the free read_object left its reader's default as new()
\* made it (no lines 146-148).
DefaultOf_as_new(f) == IF f.owner = "user" THEN default_handler ELSE "dummy"

\* StreamReader::new (lines 47-52) and the reader of the free read_object
\* (lines 145-148): no named handler; the default is dummy_handler, or the
\* closure that inserts into `result`.
NewHandlers == EmptyObject
\* HandlersOf, had read_value materialized a nested record with the reader
\* that called the handler (no new reader at line 145).
HandlersOf_of_caller(f) == handlers
HandlersOf(f) == IF f.owner = "user" THEN handlers ELSE NewHandlers
DefaultOf(f) == IF f.owner = "user" THEN default_handler ELSE "insert"

\* Lookup, had line 81 taken the default handler whatever is registered.
Lookup_default_only(hs, dflt, key) ==
    [kind |-> dflt, slot |-> DefaultSlot]

\* Line 81: self.handlers.get_mut(&key).unwrap_or(&mut self.default_handler).
Lookup(hs, dflt, key) ==
    IF key \in DOMAIN hs
    THEN [kind |-> hs[key], slot |-> key]
    ELSE [kind |-> dflt, slot |-> DefaultSlot]

\* ScalarValue, had line 122 built an I64 from a BooleanValue.
ScalarValue_bool_as_i64(first) ==
    CASE first.t \in {"BooleanValue", "I64Value"} -> JsonScalar("I64", first.n)
      [] first.t = "U64Value" -> JsonScalar("U64", first.n)
      [] first.t = "F64Value" -> JsonScalar("F64", first.n)
      [] first.t = "StringValue" -> JsonScalar("String", first.n)
      [] OTHER -> JsonNull

\* ScalarValue, had line 128 kept the unexpected token's text as a String.
ScalarValue_token_as_string(first) ==
    CASE first.t = "BooleanValue" -> JsonScalar("Boolean", first.n)
      [] first.t = "I64Value" -> JsonScalar("I64", first.n)
      [] first.t = "U64Value" -> JsonScalar("U64", first.n)
      [] first.t = "F64Value" -> JsonScalar("F64", first.n)
      [] first.t = "StringValue" -> JsonScalar("String", first.n)
      [] first.t = "NullValue" -> JsonNull
      [] OTHER -> JsonScalar("String", 0)

\* Lines 122-128 of read_value: a scalar event becomes the matching Json
\* variant; any other token that starts no container becomes Null.
ScalarValue(first) ==
    CASE first.t = "BooleanValue" -> JsonScalar("Boolean", first.n)
      [] first.t = "I64Value" -> JsonScalar("I64", first.n)
      [] first.t = "U64Value" -> JsonScalar("U64", first.n)
      [] first.t = "F64Value" -> JsonScalar("F64", first.n)
      [] first.t = "StringValue" -> JsonScalar("String", first.n)
      [] first.t = "NullValue" -> JsonNull
      [] OTHER -> JsonNull

\* EndsObject, had line 72 also returned on an Error event.
EndsObject_or_error(e) == e = None \/ e = ObjectEnd \/ e = ErrorEvent
\* EndsObject, had line 72 returned on exhaustion only.
EndsObject_none_only(e) == e = None
\* EndsArray, had line 109 returned on exhaustion only.
EndsArray_none_only(e) == e = None

\* Line 72 and line 109: the events that end a loop.
EndsObject(e) == e = None \/ e = ObjectEnd
EndsArray(e) == e = None \/ e = ArrayEnd

\* IsKey, had line 76 also taken an array index for a field name.
IsKey_or_index(top) == top.k \in {"Key", "Index"}
\* Line 76: the stack top is a field name.
IsKey(top) == top.k = "Key"

\* NonArray, had array_handler read whatever it is given (no lines 102-104).
NonArray_never(first) == FALSE
\* Line 102: the array handler's first event is no ArrayStart.
NonArray(first) == first # ArrayStart

\* AfterLookup, had line 81 taken the handler out of the map to call it.
AfterLookup_removed(hs, key) == [x \in (DOMAIN hs) \ {key} |-> hs[x]]
\* Line 81: get_mut borrows the handler; the map keeps every entry.
AfterLookup(hs, key) == hs

\* No earlier traversal.
NoTraversal ==
    [phase |-> "none", pos |-> 0, pulled |-> <<>>, calls |-> <<>>,
     handlers |-> EmptyObject, default_handler |-> "", target |-> EmptyObject,
     out |-> <<>>]

(***************************************************************************)
(* The machine M = [frames, target, cbs, hdone, rvlog] and the pieces of a *)
(* step.                                                                   *)
(***************************************************************************)
Machine ==
    [frames |-> frames, target |-> target, cbs |-> cbs, hdone |-> hdone,
     rvlog |-> rvlog]

\* A handler invoked by read_object (line 82) returns with the cursor at `to`.
HandlerReturn(M, to) ==
    LET n == Len(M.frames)
        p == M.frames[n].pend
    IN [M EXCEPT !.frames[n].pend = NoPend,
                 !.hdone = Append(@, [key |-> p.key, kind |-> p.kind,
                                      slot |-> p.slot, from |-> p.from,
                                      to |-> to, user |-> p.user])]

\* TakeValue, had line 110 read the element without calling object_handler.
TakeValue_without_callback(M, v, to) ==
    LET n == Len(M.frames)
        c == M.frames[n]
    IN IF c.fn = "array_handler"
       THEN M
       ELSE HandlerReturn(
                CASE c.pend.kind = "copy" ->
                        [M EXCEPT !.target[c.pend.slot] = insert(@, c.pend.key, v)]
                  [] c.pend.kind = "insert" ->
                        [M EXCEPT !.frames[n].obj = insert(@, c.pend.key, v)]
                  [] OTHER -> M,
                to)

\* What the caller of read_value does with its result v.  In an array loop
\* it is object_handler(v) (line 110): read_array's pushes v (line 136), the
\* caller's is the callback.  In a record loop the handler in progress takes
\* v: dummy_handler drops it (line 35), copy_handler inserts it into its
\* target (line 93), the free read_object's closure inserts it into `result`
\* (line 147); then the handler returns.
TakeValue(M, v, to) ==
    LET n == Len(M.frames)
        c == M.frames[n]
    IN IF c.fn = "array_handler"
       THEN IF c.owner = "read_array"
            THEN [M EXCEPT !.frames[n].arr = Append(@, v)]
            ELSE [M EXCEPT !.cbs[c.slot] = Append(@, v)]
       ELSE HandlerReturn(
                CASE c.pend.kind = "copy" ->
                        [M EXCEPT !.target[c.pend.slot] = insert(@, c.pend.key, v)]
                  [] c.pend.kind = "insert" ->
                        [M EXCEPT !.frames[n].obj = insert(@, c.pend.key, v)]
                  [] OTHER -> M,
                to)

\* read_value without line 120: an ObjectStart is an unexpected token.
read_value_without_object(M, first, at) ==
    CASE first = ArrayStart ->
            [M EXCEPT !.frames = Append(@, Frame("array_handler", "read_array", "", at, TRUE))]
      [] OTHER ->
            TakeValue([M EXCEPT !.rvlog = Append(@,
                          [first |-> first, from |-> at, to |-> at,
                           val |-> ScalarValue(first), last |-> first])],
                      ScalarValue(first), at)

\* read_value without line 121: an ArrayStart is an unexpected token.
read_value_without_array(M, first, at) ==
    CASE first = ObjectStart ->
            [M EXCEPT !.frames = Append(@, Frame("read_object", "fresh", "", at, TRUE))]
      [] OTHER ->
            TakeValue([M EXCEPT !.rvlog = Append(@,
                          [first |-> first, from |-> at, to |-> at,
                           val |-> ScalarValue(first), last |-> first])],
                      ScalarValue(first), at)

\* read_value(first, parser), lines 117-130, called with `first` pulled at
\* stream index `at`: a container enters the loop that reads it; anything
\* else is a value at once.
read_value(M, first, at) ==
    CASE first = ObjectStart ->
            [M EXCEPT !.frames = Append(@, Frame("read_object", "fresh", "", at, TRUE))]
      [] first = ArrayStart ->
            [M EXCEPT !.frames = Append(@, Frame("array_handler", "read_array", "", at, TRUE))]
      [] OTHER ->
            TakeValue([M EXCEPT !.rvlog = Append(@,
                          [first |-> first, from |-> at, to |-> at,
                           val |-> ScalarValue(first), last |-> first])],
                      ScalarValue(first), at)

\* The top frame's loop returns on the event e, with the cursor at `to`.  A frame entered
\* through read_value yields Json::Object(result) or Json::Array(result)
\* (lines 120, 121) to the caller of read_value; the caller's array handler
\* yields nothing and its return is the handler's return.
Return(M, to, e) ==
    LET f == Top(M.frames)
        v == IF f.fn = "read_object" THEN JsonObject(f.obj) ELSE JsonArray(f.arr)
        M1 == [M EXCEPT !.frames = Pop(@)]
    IN IF f.rv
       THEN TakeValue([M1 EXCEPT !.rvlog = Append(@,
                          [first |-> IF f.fn = "read_object" THEN ObjectStart ELSE ArrayStart,
                           from |-> f.from, to |-> to, val |-> v, last |-> e])],
                      v, to)
       ELSE IF M1.frames = <<>> THEN M1 ELSE HandlerReturn(M1, to)

\* The variables take the machine's values.
Becomes(M) ==
    /\ frames' = M.frames
    /\ target' = M.target
    /\ cbs' = M.cbs
    /\ hdone' = M.hdone
    /\ rvlog' = M.rvlog

(***************************************************************************)
(* The operations.                                                         *)
(***************************************************************************)
Init ==
    /\ phase = "setup"
    /\ handlers = NewHandlers
    /\ default_handler = "dummy"
    /\ doc = DocObject(<<>>)
    /\ rec = DocObject(<<>>)
    /\ start = 0
    /\ stream = <<>>
    /\ pos = 0
    /\ frames = <<>>
    /\ target = [s \in Slots |-> EmptyObject]
    /\ cbs = [s \in Slots |-> <<>>]
    /\ calls = <<>>
    /\ hdone = <<>>
    /\ rvlog = <<>>
    /\ last = None
    /\ entry = "none"
    /\ out = <<>>
    /\ pulled = <<>>
    /\ msg = ""
    /\ prev = NoTraversal

\* StreamReader::set_handler, lines 60-62.
set_handler ==
    /\ phase = "setup"
    /\ \E name \in RegNames, h \in HandlerKinds :
          handlers' = insert(handlers, name, h)
    /\ UNCHANGED <<phase, default_handler, doc, rec, start, stream, pos, frames, target, cbs,
                   calls, hdone, rvlog, last, entry, out, pulled, msg, prev>>

\* StreamReader::set_default_handler, lines 55-57.
set_default_handler ==
    /\ phase = "setup"
    /\ \E h \in HandlerKinds : default_handler' = h
    /\ UNCHANGED <<phase, handlers, doc, rec, start, stream, pos, frames, target, cbs,
                   calls, hdone, rvlog, last, entry, out, pulled, msg, prev>>

\* The documents of the faulty streams: a slot may hold a stray event.
FaultDocs ==
    RootDocs(MaxFaultNodes, {DocScalar(e) : e \in ScalarEvents}
                            \cup {DocStray(e) : e \in StrayEvents})

\* The documents of a run: of well-formed streams, or of faulty ones.
DocsOf(faulty) == IF faulty THEN FaultDocs ELSE WellFormedDocs

\* The number of events of a value.
TokLen(d) == Len(Tokenize(d, StackEmpty))

\* The records of a document, each with the stream index of its ObjectStart.
RECURSIVE RecordsIn(_, _)
RECURSIVE RecordsInKids(_, _)
RecordsIn(d, at) ==
    (IF d.k = "Object" THEN {[at |-> at, node |-> d]} ELSE {})
    \cup RecordsInKids(d.kids, at + 1)
RecordsInKids(kids, at) ==
    IF kids = <<>> THEN {}
    ELSE RecordsIn(Head(kids).val, at)
         \cup RecordsInKids(Tail(kids), at + TokLen(Head(kids).val))

\* The streams a caller may hold for the document d when it has pulled the
\* event at index `at`: the parser's whole output or, among the faulty
\* streams, also an output that stops early.
StreamsOf(d, at, faulty) ==
    LET s == Tokenize(d, StackEmpty)
    IN {SubSeq(s, 1, n) : n \in IF faulty THEN at..Len(s) ELSE {Len(s)}}

\* The caller builds a parser, pulls events up to the ObjectStart of a record
\* r of the document and hands the parser to the function: the loop starts on
\* the record's body.
Begin(d, r, s, owner) ==
    /\ phase' = "run"
    /\ doc' = d
    /\ rec' = r.node
    /\ start' = r.at
    /\ stream' = s
    /\ pos' = r.at
    /\ last' = ObjectStart
    /\ entry' = IF owner = "user" THEN "reader" ELSE "free"
    /\ frames' = <<Frame("read_object", owner, "", r.at, FALSE)>>
    /\ UNCHANGED <<handlers, default_handler, target, cbs, calls, hdone, rvlog, out,
                   pulled, msg, prev>>

\* reader.read_object(parser), line 67.
call_read_object(faulty) ==
    /\ phase = "setup"
    /\ \E d \in DocsOf(faulty) : \E r \in RecordsIn(d, 1) :
          \E s \in StreamsOf(d, r.at, faulty) : Begin(d, r, s, "user")

\* The free read_object(parser), line 141; the caller needs no reader of its
\* own, and the model lets it call only while it has configured none.
call_free_read_object(faulty) ==
    /\ phase = "setup"
    /\ handlers = NewHandlers
    /\ default_handler = "dummy"
    /\ \E d \in DocsOf(faulty) : \E r \in RecordsIn(d, 1) :
          \E s \in StreamsOf(d, r.at, faulty) : Begin(d, r, s, "fresh")

\* The traversal aborts: panic!(m) unwinds every frame.
Panic(m) ==
    /\ phase' = "panic"
    /\ msg' = m
    /\ frames' = <<>>
    /\ UNCHANGED <<target, cbs, hdone, rvlog, out>>

\* One iteration of the loop of StreamReader::read_object, lines 70-85.
read_object_loop ==
    /\ phase = "run"
    /\ Top(frames).fn = "read_object"
    /\ LET f == Top(frames)
           n == Len(frames)
           t == ParserNext(stream, pos)
           at == ParserAdvance(stream, pos)
           h == Lookup(HandlersOf(f), DefaultOf(f), t.top.name)
           inv == [key |-> t.top.name, kind |-> h.kind, slot |-> h.slot,
                   from |-> at, user |-> f.owner = "user"]
           call == [key |-> t.top.name, kind |-> h.kind, slot |-> h.slot,
                    first |-> t.ev, at |-> at, user |-> f.owner = "user"]
           M == [Machine EXCEPT !.frames[n].pend = inv]
       IN /\ pos' = at
          /\ last' = t.ev
          /\ pulled' = Append(pulled, t.ev)
          /\ IF EndsObject(t.ev)
             THEN \* line 72
                  /\ Becomes(Return(Machine, at, t.ev))
                  /\ phase' = IF n = 1 THEN "returned" ELSE "run"
                  /\ out' = IF n = 1 /\ f.owner = "fresh" THEN <<f.obj>> ELSE out
                  /\ UNCHANGED <<calls, handlers, msg>>
             ELSE IF ~IsKey(t.top)
             THEN \* lines 77, 78
                  /\ Panic(IF t.top = StackEmpty THEN "no stack???" ELSE "invalid state")
                  /\ UNCHANGED <<calls, handlers>>
             ELSE \* lines 76, 81, 82
                  /\ calls' = Append(calls, call)
                  /\ handlers' = IF f.owner = "user"
                                 THEN AfterLookup(handlers, t.top.name)
                                 ELSE handlers
                  /\ CASE h.kind = "array" /\ NonArray(t.ev) ->
                            Panic("non-array found")   \* line 103
                       [] h.kind = "array" /\ ~NonArray(t.ev) ->
                            /\ Becomes([M EXCEPT !.frames = Append(@,
                                   Frame("array_handler", "user", h.slot, at, FALSE))])
                            /\ UNCHANGED <<phase, out, msg>>
                       [] h.kind = "peek" ->
                            /\ Becomes(HandlerReturn(M, at))
                            /\ UNCHANGED <<phase, out, msg>>
                       [] OTHER ->
                            /\ Becomes(read_value(M, t.ev, at))
                            /\ UNCHANGED <<phase, out, msg>>
    /\ UNCHANGED <<default_handler, doc, rec, start, stream, entry, prev>>

\* One iteration of the loop of array_handler, lines 106-112.
array_handler_loop ==
    /\ phase = "run"
    /\ Top(frames).fn = "array_handler"
    /\ LET t == ParserNext(stream, pos)
           at == ParserAdvance(stream, pos)
       IN /\ pos' = at
          /\ last' = t.ev
          /\ pulled' = Append(pulled, t.ev)
          /\ IF EndsArray(t.ev)
             THEN Becomes(Return(Machine, at, t.ev))
             ELSE Becomes(read_value(Machine, t.ev, at))
    /\ UNCHANGED <<phase, handlers, default_handler, doc, rec, start, stream, calls,
                   entry, out, msg, prev>>

\* Well-formed streams only.
Next ==
    \/ set_handler
    \/ set_default_handler
    \/ call_read_object(FALSE)
    \/ call_free_read_object(FALSE)
    \/ read_object_loop
    \/ array_handler_loop

Spec == Init /\ [][Next]_vars

\* Streams that may stop early or carry stray events.
NextFault ==
    \/ set_handler
    \/ set_default_handler
    \/ call_read_object(TRUE)
    \/ call_free_read_object(TRUE)
    \/ read_object_loop
    \/ array_handler_loop

SpecFault == Init /\ [][NextFault]_vars

\* The loops of lines 70 and 106 run in one thread with nothing to wait for:
\* a loop that can take its next iteration takes it.
SpecLive ==
    SpecFault /\ WF_vars(read_object_loop) /\ WF_vars(array_handler_loop)

(***************************************************************************)
(* A caller with a handler of its own, and a caller that breaks the        *)
(* precondition of line 65.                                                *)
(***************************************************************************)
\* reader.set_handler(name, Box::new(|_, first, _| ...)), lines 60-62.
set_custom_handler ==
    /\ phase = "setup"
    /\ \E name \in RegNames, h \in CustomKinds :
          handlers' = insert(handlers, name, h)
    /\ UNCHANGED <<phase, default_handler, doc, rec, start, stream, pos, frames, target, cbs,
                   calls, hdone, rvlog, last, entry, out, pulled, msg, prev>>

\* reader.set_default_handler(Box::new(|_, first, _| ...)), lines 55-57.
set_custom_default_handler ==
    /\ phase = "setup"
    /\ \E h \in CustomKinds : default_handler' = h
    /\ UNCHANGED <<phase, handlers, doc, rec, start, stream, pos, frames, target, cbs,
                   calls, hdone, rvlog, last, entry, out, pulled, msg, prev>>

\* The documents read with such a handler: well-formed ones.
CustomDocs == RootDocs(MaxCustomNodes, {DocScalar(Ev("I64Value", 1))})

\* reader.read_object(parser), line 67, after the record's ObjectStart.
call_read_object_custom ==
    /\ phase = "setup"
    /\ \E d \in CustomDocs : \E r \in RecordsIn(d, 1) :
          Begin(d, r, Tokenize(d, StackEmpty), "user")

\* reader.read_object(parser), line 67, on a parser nothing was pulled from:
\* the ObjectStart that line 65 expects consumed is still to come.
call_read_object_unopened ==
    /\ phase = "setup"
    /\ \E d \in CustomDocs :
          /\ doc' = d
          /\ rec' = d
          /\ stream' = Tokenize(d, StackEmpty)
    /\ phase' = "run"
    /\ start' = 0
    /\ pos' = 0
    /\ entry' = "reader"
    /\ frames' = <<Frame("read_object", "user", "", 0, FALSE)>>
    /\ UNCHANGED <<handlers, default_handler, target, cbs, calls, hdone, rvlog, last, out,
                   pulled, msg, prev>>

NextCustom ==
    \/ set_handler
    \/ set_default_handler
    \/ set_custom_handler
    \/ set_custom_default_handler
    \/ call_read_object_custom
    \/ call_read_object_unopened
    \/ read_object_loop
    \/ array_handler_loop

SpecCustom == Init /\ [][NextCustom]_vars

(***************************************************************************)
(* A caller that reads the same text twice: with the same reader again, or *)
(* with the free read_object after its reader.                             *)
(***************************************************************************)
\* The field lists of n nodes in all; a name may come again.
RECURSIVE DupFields(_, _)
DupFields(n, L) ==
    UNION {{<<Field(nm[1], x)>> \o f :
                x \in DocValues(nm[2], L),
                f \in IF nm[2] = n THEN {<<>>} ELSE DupFields(n - nm[2], L)}
           : nm \in Keys \X (1..n)}

\* The root records of at most MaxDupNodes nodes whose body may repeat a name.
DupDocs ==
    {DocObject(<<>>)} \cup
    UNION {{DocObject(f) : f \in DupFields(m, {DocScalar(e) : e \in ScalarEvents})}
           : m \in 1..(MaxDupNodes - 1)}

\* reader.read_object(parser), line 67.
call_read_object_dup ==
    /\ phase = "setup"
    /\ \E d \in DupDocs : \E r \in RecordsIn(d, 1) :
          Begin(d, r, Tokenize(d, StackEmpty), "user")

\* The free read_object(parser), line 141.
call_free_read_object_dup ==
    /\ phase = "setup"
    /\ handlers = NewHandlers
    /\ default_handler = "dummy"
    /\ \E d \in DupDocs : \E r \in RecordsIn(d, 1) :
          Begin(d, r, Tokenize(d, StackEmpty), "fresh")

\* What a traversal that is over leaves to compare the next one with.
Outcome ==
    [phase |-> phase, pos |-> pos, pulled |-> pulled, calls |-> calls,
     handlers |-> handlers, default_handler |-> default_handler,
     target |-> target[DefaultSlot], out |-> out]

\* The caller builds a new parser over the same text, pulls up to the same
\* ObjectStart and calls `owner`'s read_object: the reader it has (line 67),
\* or the free function (line 141).  What the caller's closures captured
\* (target, cbs) stays as the first traversal left it.
Again(owner) ==
    /\ prev = NoTraversal
    /\ entry = "reader"
    /\ prev' = Outcome
    /\ phase' = "run"
    /\ pos' = start
    /\ last' = ObjectStart
    /\ entry' = IF owner = "user" THEN "reader" ELSE "free"
    /\ frames' = <<Frame("read_object", owner, "", start, FALSE)>>
    /\ calls' = <<>>
    /\ hdone' = <<>>
    /\ rvlog' = <<>>
    /\ pulled' = <<>>
    /\ msg' = ""
    /\ out' = <<>>
    /\ UNCHANGED <<handlers, default_handler, doc, rec, start, stream, target, cbs>>

\* reader.read_object(parser) once more, when the first call has returned.
read_object_again ==
    /\ phase = "returned"
    /\ Again("user")

\* The free read_object(parser) on the text a reader with no named handler
\* and the dummy or a copy default handler has read (or has aborted on).
free_read_object_again ==
    /\ phase \in {"returned", "panic"}
    /\ handlers = NewHandlers
    /\ default_handler \in {"dummy", "copy"}
    /\ Again("fresh")

NextDup ==
    \/ set_handler
    \/ set_default_handler
    \/ call_read_object_dup
    \/ call_free_read_object_dup
    \/ read_object_loop
    \/ array_handler_loop
    \/ read_object_again

SpecDup == Init /\ [][NextDup]_vars

NextTwice ==
    \/ set_default_handler
    \/ call_read_object(TRUE)
    \/ read_object_loop
    \/ array_handler_loop
    \/ free_read_object_again

SpecTwice == Init /\ [][NextTwice]_vars

(***************************************************************************)
(* What the claims are stated with.  These read the stream and the         *)
(* document on their own; none of them uses the machine.                   *)
(***************************************************************************)
IsStart(e) == e = ObjectStart \/ e = ArrayStart
IsEnd(e) == e = ObjectEnd \/ e = ArrayEnd

\* The index of the last event of the value whose first event is s[i]: i for
\* a scalar, the index of the matching end for a container (0 if the stream
\* stops before it).
RECURSIVE MatchEnd(_, _, _)
MatchEnd(s, j, depth) ==
    IF j > Len(s) THEN 0
    ELSE LET d2 == IF IsStart(s[j].ev) THEN depth + 1
                   ELSE IF IsEnd(s[j].ev) THEN depth - 1 ELSE depth
         IN IF d2 <= 0 THEN j ELSE MatchEnd(s, j + 1, d2)
SubtreeEnd(s, i) == MatchEnd(s, i, 0)

\* The index of the start event of the innermost container that holds the
\* event s[i] (0 at the root).
RECURSIVE OpenBefore(_, _, _)
OpenBefore(s, j, depth) ==
    IF j = 0 THEN 0
    ELSE IF IsEnd(s[j].ev) THEN OpenBefore(s, j - 1, depth + 1)
    ELSE IF IsStart(s[j].ev)
         THEN IF depth = 0 THEN j ELSE OpenBefore(s, j - 1, depth - 1)
    ELSE OpenBefore(s, j - 1, depth)
Enclosing(s, i) == OpenBefore(s, i - 1, 0)

\* The Json variant a scalar event stands for.
VariantOf(t) ==
    CASE t = "BooleanValue" -> "Boolean"
      [] t = "I64Value" -> "I64"
      [] t = "U64Value" -> "U64"
      [] t = "F64Value" -> "F64"
      [] t = "StringValue" -> "String"

\* The value a document denotes: an array keeps its elements in order, a
\* record maps each name to the value of its (last) field of that name, and
\* a malformed slot counts as Null.
RECURSIVE ToJson(_)
ToJson(d) ==
    CASE d.k = "Scalar" ->
            IF d.ev.t = "NullValue" THEN JsonNull
            ELSE JsonScalar(VariantOf(d.ev.t), d.ev.n)
      [] d.k = "Stray" -> JsonNull
      [] d.k = "Array" -> JsonArray([i \in 1..Len(d.kids) |-> ToJson(d.kids[i].val)])
      [] d.k = "Object" ->
            JsonObject([name \in {d.kids[i].name : i \in 1..Len(d.kids)} |->
                LET lastAt == CHOOSE i \in 1..Len(d.kids) :
                                  /\ d.kids[i].name = name
                                  /\ \A j \in (i + 1)..Len(d.kids) : d.kids[j].name # name
                IN ToJson(d.kids[lastAt].val)])

IsPrefix(a, b) == Len(a) <= Len(b) /\ SubSeq(b, 1, Len(a)) = a

\* The stream is the parser's whole output for the document.
Complete == stream = Tokenize(doc, StackEmpty)

\* The index of the ObjectEnd of the record that is read.
OwnEnd == start + TokLen(rec) - 1

\* The handler invocations the record's fields call for, in document order:
\* field i goes to the handler registered under its name, else to the default.
Invocation(key, first, kind, slot) ==
    [key |-> key, first |-> first, kind |-> kind, slot |-> slot]
ExpectedCalls ==
    [i \in 1..Len(rec.kids) |->
        LET f == rec.kids[i]
        IN IF f.name \in DOMAIN handlers
           THEN Invocation(f.name, f.val.ev, handlers[f.name], f.name)
           ELSE Invocation(f.name, f.val.ev, default_handler, DefaultSlot)]
\* The handler invocations the caller's reader made.
UserCalls ==
    LET ByUser(c) == c.user
        uc == SelectSeq(calls, ByUser)
    IN [i \in 1..Len(uc) |->
            Invocation(uc[i].key, uc[i].first, uc[i].kind, uc[i].slot)]

\* The values the callback of the array handler in slot sl is due: the
\* elements of the fields that go to it, in document order.
RECURSIVE ElementsFor(_, _)
ElementsFor(sl, i) ==
    IF i > Len(rec.kids) THEN <<>>
    ELSE (IF ExpectedCalls[i].slot = sl /\ ExpectedCalls[i].kind = "array"
          THEN [j \in 1..Len(rec.kids[i].val.kids) |->
                    ToJson(rec.kids[i].val.kids[j].val)]
          ELSE <<>>) \o ElementsFor(sl, i + 1)

(***************************************************************************)
(* The claims.                                                             *)
(***************************************************************************)

\* C1: on a well-formed stream every read_value call, entered with the first
\* event of a value already pulled, returns with the cursor on the last event
\* of that value's subtree: on the first event itself for a scalar, on the
\* matching ArrayEnd/ObjectEnd for a container.
C1_ReadValueConsumesSubtree ==
    \A i \in 1..Len(rvlog) :
        /\ rvlog[i].first = stream[rvlog[i].from].ev
        /\ rvlog[i].to = SubtreeEnd(stream, rvlog[i].from)
        /\ IsStart(rvlog[i].first) => rvlog[i].last = stream[rvlog[i].to].ev
C1_Witness ==
    /\ phase = "returned"
    /\ \E i, j \in 1..Len(rvlog) :
          /\ rvlog[i].first = ArrayStart
          /\ rvlog[i].to >= rvlog[i].from + 2
          /\ rvlog[i].to < Len(stream) - 1
          /\ rvlog[j].first = ObjectStart
          /\ rvlog[j].to > rvlog[j].from + 1

\* C2: on a well-formed stream with built-in handlers, read_object called
\* after the record's ObjectStart returns right after pulling the matching
\* ObjectEnd: while it runs the cursor is before that ObjectEnd, and when it
\* has returned the cursor is on it.
C2_ReturnsAtOwnObjectEnd ==
    /\ phase = "run" => pos < SubtreeEnd(stream, start)
    /\ phase = "returned" =>
          /\ pos = SubtreeEnd(stream, start)
          /\ last = ObjectEnd
          /\ stream[pos].ev = ObjectEnd
C2_Witness ==
    /\ phase = "returned"
    /\ entry = "reader"
    /\ pos < Len(stream)
    /\ \E i \in (start + 1)..(pos - 1) : stream[i].ev = ObjectEnd

\* C3: on a well-formed stream, when a handler invoked for a field returns,
\* the cursor is on the last event of the field's value, so that the next
\* next() yields the first event of the next field of the same record, or
\* that record's ObjectEnd.
C3_HandlerLeavesCursorAtNextField ==
    \A i \in 1..Len(hdone) :
        LET h == hdone[i]
            nxt == h.to + 1
        IN /\ h.to = SubtreeEnd(stream, h.from)
           /\ nxt <= Len(stream)
           /\ ParserNext(stream, h.to) = stream[nxt]
           /\ \/ /\ stream[nxt].ev = ObjectEnd
                 /\ SubtreeEnd(stream, Enclosing(stream, h.from)) = nxt
              \/ /\ ~IsEnd(stream[nxt].ev)
                 /\ stream[nxt].top.k = "Key"
                 /\ Enclosing(stream, nxt) = Enclosing(stream, h.from)
C3_Witness ==
    \E i, j \in 1..Len(hdone) :
        /\ hdone[i].kind = "array"
        /\ hdone[i].to >= hdone[i].from + 2
        /\ stream[hdone[i].to + 1].ev # ObjectEnd
        /\ hdone[j].kind = "copy"
        /\ stream[hdone[j].to + 1].ev = ObjectEnd

\* C4: while the caller's reader reads a record of a well-formed stream, the
\* handler invocations it has made are, in order, those of the record's first
\* fields: one per field, with the field's name (the parser's stack top when
\* the field's first event was pulled) and that first event, going to the
\* handler registered under the name if there is one and to the default
\* handler otherwise; when it has returned, every field has had its one.
C4_OneInvocationPerField ==
    entry = "reader" =>
        /\ IsPrefix(UserCalls, ExpectedCalls)
        /\ phase = "returned" => UserCalls = ExpectedCalls
        /\ \A i \in 1..Len(calls) :
              /\ calls[i].key = stream[calls[i].at].top.name
              /\ calls[i].first = stream[calls[i].at].ev
C4_Witness ==
    /\ entry = "reader"
    /\ phase = "returned"
    /\ Len(UserCalls) = 2
    /\ UserCalls[1].slot = DefaultSlot
    /\ UserCalls[2].slot = "a"
    /\ UserCalls[2].first = ArrayStart

\* C5: on a well-formed stream the free read_object returns the value the
\* record denotes: scalars as the matching variant, arrays with their
\* elements in order, records mapping each field name to its value.
C5_FreeReadObjectMaterializes ==
    (entry = "free" /\ phase = "returned") => out = <<ToJson(rec).fields>>
C5_Witness ==
    /\ entry = "free"
    /\ phase = "returned"
    /\ out # <<>>
    /\ "a" \in DOMAIN out[1]
    /\ out[1]["a"].k = "Object"
    /\ "b" \in DOMAIN out[1]["a"].fields
    /\ out[1]["a"].fields["b"].k = "Array"
    /\ Len(out[1]["a"].fields["b"].items) = 1

\* C6: on a well-formed stream the callback of an array handler is given the
\* elements of the arrays the handler is invoked for, each once, materialized,
\* in document order; the handler returns on the matching ArrayEnd, and the
\* reader that invoked it ends on its own ObjectEnd with nothing left over.
C6_ArrayHandlerCallsBackPerElement ==
    entry = "reader" =>
        /\ \A sl \in Slots :
              /\ IsPrefix(cbs[sl], ElementsFor(sl, 1))
              /\ phase = "returned" => cbs[sl] = ElementsFor(sl, 1)
        /\ \A i \in 1..Len(hdone) :
              hdone[i].kind = "array" =>
                  /\ stream[hdone[i].from].ev = ArrayStart
                  /\ hdone[i].to = SubtreeEnd(stream, hdone[i].from)
        /\ (phase = "returned" /\ \E i \in 1..Len(hdone) : hdone[i].kind = "array")
              => pos = OwnEnd /\ last = ObjectEnd
C6_Witness ==
    /\ entry = "reader"
    /\ phase = "returned"
    /\ Len(cbs["a"]) = 2
    /\ cbs["a"][1] # cbs["a"][2]

\* C7: when the stream is exhausted inside an array, after its ArrayStart and
\* before its ArrayEnd, the loop that reads the array (read_array's or the
\* caller's array handler's) aborts the traversal instead of returning.
C7_ExhaustedArrayAborts ==
    [][(/\ phase = "run"
        /\ Top(frames).fn = "array_handler"
        /\ ParserNext(stream, pos).ev = None) => phase' = "panic"]_vars

\* C8: when the stream is exhausted before the ObjectEnd of a record that is
\* read, neither read_object returns: the call the caller made does not
\* return normally, and no read_value yields a record whose loop stopped on
\* the exhausted parser.
C8_ExhaustedRecordAborts ==
    /\ phase = "returned" => last # None
    /\ \A i \in 1..Len(rvlog) : rvlog[i].first = ObjectStart => rvlog[i].last # None

\* C9: a read_value call whose first event starts no value (a stray
\* ObjectEnd or ArrayEnd, or an Error) yields Null with the cursor where it
\* was, and the handler that made the call returns normally at that cursor.
C9_StrayTokenYieldsNull ==
    /\ \A i \in 1..Len(rvlog) :
          rvlog[i].first \in StrayEvents =>
              /\ rvlog[i].val = JsonNull
              /\ rvlog[i].to = rvlog[i].from
              /\ rvlog[i].last = rvlog[i].first
    /\ \A i \in 1..Len(calls) :
          (calls[i].first \in StrayEvents /\ calls[i].kind # "array") =>
              \E j \in 1..Len(hdone) :
                  /\ hdone[j].from = calls[i].at
                  /\ hdone[j].to = calls[i].at
                  /\ hdone[j].key = calls[i].key
C9_Witness ==
    /\ phase = "returned"
    /\ last = ObjectEnd
    /\ \E i, j \in 1..Len(rvlog) :
          /\ rvlog[i].first = ObjectEnd
          /\ rvlog[i].val = JsonNull
          /\ rvlog[j].first = ArrayStart
          /\ rvlog[j].val.items = <<JsonNull>>

\* A document without malformed slots.
RECURSIVE WellFormed(_)
WellFormed(d) ==
    /\ d.k # "Stray"
    /\ \A i \in 1..Len(d.kids) : WellFormed(d.kids[i].val)

\* The case of C10: the whole stream of a record of which some fields start
\* with an event that starts no value (an ObjectEnd in a record's body is the
\* record's end, line 72, so these are ArrayEnd and Error) and the other
\* fields are well-formed, read with no array handler met by a non-array.
C10_Case ==
    /\ phase # "setup"
    /\ Complete
    /\ \E i \in 1..Len(rec.kids) : rec.kids[i].val.k = "Stray"
    /\ \A i \in 1..Len(rec.kids) :
          IF rec.kids[i].val.k = "Stray"
          THEN rec.kids[i].val.ev \in {ArrayEnd, ErrorEvent}
          ELSE WellFormed(rec.kids[i].val)
    /\ entry = "reader" =>
          \A i \in 1..Len(rec.kids) :
              ExpectedCalls[i].kind = "array" => ExpectedCalls[i].first = ArrayStart

\* The record a copy handler in slot sl is due: the fields that go to it.
CopiedTo(sl) ==
    [name \in {rec.kids[i].name : i \in {j \in 1..Len(rec.kids) :
                                            ExpectedCalls[j].slot = sl}} |->
        ToJson(rec).fields[name]]

KindFor(name) ==
    IF name \in DOMAIN handlers THEN handlers[name] ELSE default_handler

\* The latest handler invocation.
LastCall == calls[Len(calls)]

\* C11: when a read_object loop pulls an event other than ObjectEnd while the
\* parser's stack top is no field name (an array index, or nothing at all),
\* the traversal aborts in that very step: no handler is invoked for the
\* event, none returns, and after the abort nothing more is pulled.
C11_NonKeyFrameAbortsAtOnce ==
    [][/\ (/\ phase = "run"
           /\ Top(frames).fn = "read_object"
           /\ ParserNext(stream, pos).ev \notin {None, ObjectEnd}
           /\ ParserNext(stream, pos).top.k # "Key")
          => /\ phase' = "panic"
             /\ msg' = (IF ParserNext(stream, pos).top.k = "Index"
                        THEN "invalid state" ELSE "no stack???")
             /\ frames' = <<>>
             /\ calls' = calls
             /\ hdone' = hdone
             /\ pulled' = Append(pulled, ParserNext(stream, pos).ev)
             /\ pos' = pos + 1
       /\ phase = "panic" => (phase' = "panic" /\ pos' = pos /\ pulled' = pulled
                              /\ calls' = calls)
      ]_vars
C11_Witness ==
    /\ phase = "panic"
    /\ msg = "invalid state"
    /\ stream[pos].top.k = "Index"
    /\ last = stream[pos].ev
    /\ calls # <<>>
    /\ LastCall.kind = "peek"
    /\ LastCall.first = ArrayStart
    /\ LastCall.at = pos - 1

\* C12: when the caller's reader hands a field whose first event is not
\* ArrayStart to an array handler, the traversal aborts ("non-array found")
\* in that very step: the cursor stays on the field's first event, the
\* callback is given nothing, no frame is left and read_object does not
\* return.
C12_NonArrayAbortsAtOnce ==
    [][(/\ phase = "run"
        /\ Top(frames).fn = "read_object"
        /\ Top(frames).owner = "user"
        /\ ParserNext(stream, pos).ev \notin {None, ObjectEnd, ArrayStart}
        /\ ParserNext(stream, pos).top.k = "Key"
        /\ KindFor(ParserNext(stream, pos).top.name) = "array")
       => /\ phase' = "panic"
          /\ msg' = "non-array found"
          /\ frames' = <<>>
          /\ pos' = pos + 1
          /\ pulled' = Append(pulled, ParserNext(stream, pos).ev)
          /\ cbs' = cbs
          /\ hdone' = hdone
      ]_vars
C12_Witness ==
    /\ phase = "panic"
    /\ msg = "non-array found"
    /\ Len(calls) = 2
    /\ LastCall.kind = "array"
    /\ LastCall.first = ObjectStart
    /\ pos = LastCall.at
    /\ pos < SubtreeEnd(stream, pos)
    /\ cbs[DefaultSlot] = <<JsonScalar("I64", 1)>>

\* The stream index of the first event of the i-th field (or element) of the
\* container d whose start event is at index `at`.
RECURSIVE KidAt(_, _, _)
KidAt(d, at, i) ==
    IF i = 1 THEN at + 1
    ELSE KidAt(d, at, i - 1) + TokLen(d.kids[i - 1].val)

\* The invocations the caller's reader makes when it takes the fields of the
\* record d for its own.
ExpectedIn(d) ==
    [i \in 1..Len(d.kids) |->
        Invocation(d.kids[i].name, d.kids[i].val.ev, KindFor(d.kids[i].name),
                   IF d.kids[i].name \in DOMAIN handlers
                   THEN d.kids[i].name ELSE DefaultSlot)]

\* The handler for the i-th field of d reads the whole value: a built-in
\* handler met by what it reads, or the caller's own met by a scalar.
ReadsWhole(d, i) ==
    /\ KindFor(d.kids[i].name) = "array" => d.kids[i].val.k = "Array"
    /\ KindFor(d.kids[i].name) = "peek" => d.kids[i].val.k = "Scalar"

\* The invocations the caller's reader made, as logged.
ByReader ==
    LET ByUser(c) == c.user
    IN SelectSeq(calls, ByUser)

\* The case of C13 with the k-th field of the record as the nested record:
\* the caller's own handler gets the nested record's ObjectStart and returns
\* without reading on; every field before it, and every field of the nested
\* record, goes to a handler that reads the whole value.
C13_CaseAt(k) ==
    /\ phase # "setup"
    /\ entry = "reader"
    /\ start >= 1
    /\ k \in 1..Len(rec.kids)
    /\ KindFor(rec.kids[k].name) = "peek"
    /\ rec.kids[k].val.k = "Object"
    /\ \A i \in 1..(k - 1) : ReadsWhole(rec, i)
    /\ \A j \in 1..Len(rec.kids[k].val.kids) : ReadsWhole(rec.kids[k].val, j)

\* C13: in that case read_object does not abort.  After the handler's early
\* return it goes on as if nothing were amiss: the invocations it makes are
\* those for its own fields up to the nested record, then one per field of
\* the nested record, by the caller's registry; it returns on the nested
\* record's ObjectEnd, before the end of its own record.
C13_UnderConsumingHandlerGoesUnnoticed ==
    \A k \in 1..Len(rec.kids) :
        C13_CaseAt(k) =>
            LET nested == rec.kids[k].val
                at == KidAt(rec, start, k)
                due == SubSeq(ExpectedCalls, 1, k) \o ExpectedIn(nested)
            IN /\ phase # "panic"
               /\ IsPrefix(UserCalls, due)
               /\ \A i \in (k + 1)..Len(ByReader) :
                     Enclosing(stream, ByReader[i].at) = at
               /\ phase = "run" => pos < SubtreeEnd(stream, at)
               /\ phase = "returned" =>
                     /\ UserCalls = due
                     /\ pos = SubtreeEnd(stream, at)
                     /\ last = ObjectEnd
                     /\ pos < OwnEnd
C13_Witness ==
    /\ C13_CaseAt(1)
    /\ phase = "returned"
    /\ Len(rec.kids) = 2
    /\ Len(rec.kids[1].val.kids) = 1
    /\ Len(ByReader) = 2
    /\ ByReader[2].key = rec.kids[1].val.kids[1].name
    /\ ByReader[2].kind = "dummy"
    /\ pos = OwnEnd - 2

\* The containers whose start event is among s[a..b] and whose end event is
\* not: starts less ends.
OpenCount(s, a, b) ==
    Cardinality({j \in a..b : IsStart(s[j].ev)})
    - Cardinality({j \in a..b : IsEnd(s[j].ev)})

\* The nesting depth of a value: 0 for a scalar, 1 for an empty container.
RECURSIVE Depth(_)
Max(S) == CHOOSE x \in S : \A y \in S : y <= x
Depth(d) ==
    IF d.k \notin {"Array", "Object"} THEN 0
    ELSE 1 + Max({0} \cup {Depth(d.kids[i].val) : i \in 1..Len(d.kids)})

\* C14: on a well-formed stream, whenever a read_value call is in progress on
\* a container (a frame it entered is on the call stack), the frames from
\* that one up are all read_object / read_array frames of read_value, one per
\* container opened since the call's first event and not yet closed, each
\* nested directly in the one below, with the cursor inside the topmost; the
\* whole call stack is never deeper than the document.
C14_DepthOfRecursionIsDepthOfNesting ==
    phase = "run" =>
        /\ Len(frames) <= Depth(doc)
        /\ \A i \in 1..Len(frames) :
              frames[i].rv =>
                  /\ Len(frames) - i + 1 = OpenCount(stream, frames[i].from, pos)
                  /\ \A j \in i..Len(frames) :
                        /\ frames[j].rv
                        /\ frames[j].fn = (IF stream[frames[j].from].ev = ObjectStart
                                           THEN "read_object" ELSE "array_handler")
                        /\ j > i => Enclosing(stream, frames[j].from) = frames[j - 1].from
                  /\ Enclosing(stream, pos + 1) = Top(frames).from
C14_Witness ==
    /\ phase = "run"
    /\ Len(frames) = 3
    /\ frames[2].rv
    /\ frames[2].fn = "array_handler"
    /\ frames[3].fn = "read_object"
    /\ Depth(doc) = 3
    /\ pos = frames[3].from + 1

\* C15: on every finite stream, truncated and malformed ones included, and
\* with any registry of dummy, copy and array handlers, a traversal that
\* runs comes to an end: it returns or it aborts.  Every iteration of either
\* loop calls next() once; it moves the cursor by one event unless the
\* parser is exhausted, and on exhaustion, as on the end marker of its own
\* kind, the loop is left.
C15_TraversalEnds ==
    /\ (phase = "run") ~> (phase \in {"returned", "panic"})
    /\ [][phase = "run" =>
            /\ pulled' = Append(pulled, ParserNext(stream, pos).ev)
            /\ pos' = (IF pos < Len(stream) THEN pos + 1 ELSE pos)
            /\ (\/ ParserNext(stream, pos).ev = None
                \/ /\ Top(frames).fn = "read_object"
                   /\ ParserNext(stream, pos).ev = ObjectEnd
                \/ /\ Top(frames).fn = "array_handler"
                   /\ ParserNext(stream, pos).ev = ArrayEnd)
               => (Len(frames') = Len(frames) - 1
                   /\ phase' = (IF Len(frames) = 1 THEN "returned" ELSE "run"))
         ]_vars
C15_Witness ==
    /\ phase = "returned"
    /\ last = None
    /\ Len(pulled) > pos - start + 1
    /\ \E i \in 1..Len(pulled) : pulled[i] \in StrayEvents
    /\ \E i \in 1..Len(hdone) : hdone[i].kind = "array"

\* The caller's reader reads the same text a second time.
SecondTraversal == prev.phase = "returned" /\ entry = "reader"

\* C16: no step of a traversal changes the registry of the caller's reader,
\* neither its named handlers nor its default handler, whichever reader (the
\* caller's, or a fresh one materializing a nested record) takes the step;
\* and when the same reader reads the same text again, it makes the
\* invocations of the first traversal again, handler for handler.
C16_TraversalLeavesRegistryAlone ==
    /\ [][phase = "run" =>
            (handlers' = handlers /\ default_handler' = default_handler)]_vars
    /\ [](SecondTraversal =>
            /\ handlers = prev.handlers
            /\ default_handler = prev.default_handler
            /\ IsPrefix(calls, prev.calls)
            /\ phase # "panic"
            /\ phase = "returned" => (calls = prev.calls /\ pos = prev.pos))
C16_Witness ==
    /\ SecondTraversal
    /\ phase = "returned"
    /\ DOMAIN handlers = {"a"}
    /\ handlers["a"] = "copy"
    /\ default_handler = "array"
    /\ Len(calls) = 2
    /\ calls[1].slot = "a"
    /\ calls[1].first = ObjectStart
    /\ calls[2].kind = "insert"
    /\ calls[2].key = "a"
    /\ calls = prev.calls

\* The free read_object reads the text the caller's reader has read.
FreeAfterReader == prev.phase # "none" /\ entry = "free"

\* C17: on every stream, the free read_object pulls what a reader with no
\* named handler and the dummy or a copy default handler pulled from the same
\* text: the same events in the same order, exhaustion included, up to the
\* same cursor, and it ends as the reader did (returned or aborted).  When
\* the reader's default was a copy handler into an empty target, the record
\* the free read_object returns is that target.
C17_FreeReadObjectIsReaderWithCopyDefault ==
    FreeAfterReader =>
        /\ IsPrefix(pulled, prev.pulled)
        /\ pos <= prev.pos
        /\ phase # "run" =>
              /\ phase = prev.phase
              /\ pulled = prev.pulled
              /\ pos = prev.pos
        /\ (phase = "returned" /\ prev.default_handler = "copy") =>
              out = <<prev.target>>
C17_Witness ==
    /\ FreeAfterReader
    /\ phase = "returned"
    /\ prev.default_handler = "copy"
    /\ last = None
    /\ Len(pulled) = 4
    /\ pulled[3] = None
    /\ out = <<prev.target>>
    /\ "a" \in DOMAIN out[1]
    /\ out[1]["a"] = JsonArray(<<JsonNull>>)

\* C18: a handler registered under a name is invoked only by the caller's
\* reader, only for fields directly in the body of the record that reader
\* reads, and only for fields of that name.  A field inside another field's
\* value, whatever its name, is taken by the closure of a fresh reader; it
\* adds nothing to what a registered copy handler has copied.
C18_RegisteredHandlerSeesDirectFieldsOnly ==
    entry = "reader" =>
        /\ \A i \in 1..Len(calls) :
              LET c == calls[i]
              IN /\ c.user <=> Enclosing(stream, c.at) = start
                 /\ c.slot # DefaultSlot =>
                       /\ c.user
                       /\ c.key = c.slot
                       /\ c.key = stream[c.at].top.name
                       /\ c.kind = handlers[c.key]
                 /\ ~c.user => (c.kind = "insert" /\ c.slot = DefaultSlot)
        /\ \A i \in 1..Len(hdone) :
              hdone[i].slot # DefaultSlot =>
                  (hdone[i].user /\ Enclosing(stream, hdone[i].from) = start)
        /\ \A sl \in RegNames :
              (sl \in DOMAIN handlers /\ handlers[sl] = "copy") =>
                  (target[sl] = EmptyObject \/ target[sl] = CopiedTo(sl))
C18_Witness ==
    /\ entry = "reader"
    /\ phase = "returned"
    /\ DOMAIN handlers = {"a"}
    /\ handlers["a"] = "copy"
    /\ Len(calls) = 3
    /\ calls[1].key = "b"
    /\ calls[2].key = "a"
    /\ calls[2].kind = "insert"
    /\ calls[2].first = Ev("I64Value", 1)
    /\ calls[3].slot = "a"
    /\ calls[3].first = Ev("BooleanValue", 1)
    /\ target["a"] = [x \in {"a"} |-> JsonScalar("Boolean", 1)]

\* The fields of the record that carry a name, and the last of them.
Occurrences(name) == {i \in 1..Len(rec.kids) : rec.kids[i].name = name}
LastOccurrence(name) == Max(Occurrences(name))

\* C19: when the body of the record repeats a field name, the reader invokes
\* the handler for that name once per occurrence, in document order, each
\* time with that occurrence's first event; and the record the free
\* read_object returns, like the target of a copy handler the name goes to,
\* holds the name once, with the value of its last occurrence.
C19_RepeatedNameLastOccurrenceWins ==
    /\ entry = "reader" =>
          /\ IsPrefix(UserCalls, ExpectedCalls)
          /\ phase = "returned" =>
                \A name \in Keys :
                    /\ Cardinality({i \in 1..Len(UserCalls) : UserCalls[i].key = name})
                          = Cardinality(Occurrences(name))
                    /\ (Occurrences(name) # {} /\ KindFor(name) = "copy") =>
                          LET sl == IF name \in DOMAIN handlers THEN name
                                    ELSE DefaultSlot
                          IN /\ name \in DOMAIN target[sl]
                             /\ target[sl][name] =
                                   ToJson(rec.kids[LastOccurrence(name)].val)
    /\ (entry = "free" /\ phase = "returned") =>
          /\ out # <<>>
          /\ DOMAIN out[1] = {rec.kids[i].name : i \in 1..Len(rec.kids)}
          /\ \A name \in DOMAIN out[1] :
                out[1][name] = ToJson(rec.kids[LastOccurrence(name)].val)
C19_Witness ==
    /\ entry = "reader"
    /\ phase = "returned"
    /\ Len(rec.kids) = 2
    /\ rec.kids[1].name = "a"
    /\ rec.kids[2].name = "a"
    /\ rec.kids[1].val = DocScalar(Ev("I64Value", 1))
    /\ rec.kids[2].val = DocScalar(Ev("BooleanValue", 1))
    /\ Len(calls) = 2
    /\ calls[1].slot = "a"
    /\ calls[2].slot = "a"
    /\ calls[1].kind = "copy"
    /\ target["a"] = [x \in {"a"} |-> JsonScalar("Boolean", 1)]
====
